---- MODULE Spec2Model ----
(***************************************************************************)
(* A model of fileconv/loaders.py: the loader prototype (LoaderProto), its *)
(* three variants (JSONLoader, PlistLoader, YAMLLoader) and the registry   *)
(* `get` that the module builds when it is imported.                       *)
(*                                                                         *)
(* Python values are represented as follows.                               *)
(*   - a str is a sequence of one-character strings; None, where a str is  *)
(*     expected, is the one-element sequence <<"None">>, which is no str;   *)
(*   - a format string is a sequence of tokens, the token "%s" being a     *)
(*     conversion, and a formatted line is the sequence of its parts;      *)
(*   - True, False and None of a validity test are "True", "False", "None";*)
(*   - a view (buffer handle) and a file are records, absent ones being    *)
(*     NoView and NoFile.                                                  *)
(***************************************************************************)
EXTENDS Integers, Sequences, FiniteSets, TLC

VARIABLES
    defined,    \* the plug-in variants this module defines besides the three
    pc,         \* "import": the collecting loop runs; "ready": module imported
    idx,        \* position of the collecting loop in dir()
    get,        \* the registry: extension -> loader class
    ext_regex,  \* the classes that own an ext_regex attribute, and its value
    self,       \* the loader instance of the current operation, or NoLoader
    panel,      \* the window's output panel "aaa_package_dev"
    last        \* the last call made and what it did

vars == <<defined, pc, idx, get, ext_regex, self, panel, last>>

(***************************************************************************)
(* Bounds of the model.                                                    *)
(***************************************************************************)
MaxLines == 2       \* lines the panel holds before the model stops writing
MaxFileLines == 2   \* lines of a file on disk

(***************************************************************************)
(* Strings.                                                                *)
(***************************************************************************)
None == <<"None">>

Truthy(s) == s # None /\ s # <<>>

\* `a or b` and `a and b` of Python, on str-or-None values
PyOr(a, b) == IF Truthy(a) THEN a ELSE b

Lower(c) ==
    CASE c = "J" -> "j" [] c = "S" -> "s" [] c = "O" -> "o" [] c = "N" -> "n"
      [] c = "Y" -> "y" [] c = "M" -> "m" [] c = "L" -> "l" [] c = "A" -> "a"
      [] c = "P" -> "p" [] c = "I" -> "i" [] c = "T" -> "t"
      [] OTHER -> c

LowerStr(s) == [k \in 1..Len(s) |-> Lower(s[k])]

\* s[a:b] of Python, with 0 <= a <= b <= len(s)
Slice(s, a, b) == SubSeq(s, a + 1, b)

\* s.rfind(c) of Python, 0-based, -1 when absent
RFind(s, c) ==
    LET hits == {k \in 1..Len(s) : s[k] = c}
    IN  IF hits = {} THEN -1 ELSE (CHOOSE k \in hits : \A j \in hits : j <= k) - 1

IsPrefix(s, t) == Len(s) <= Len(t) /\ SubSeq(t, 1, Len(s)) = s

(***************************************************************************)
(* os.path, as the loaders call it (POSIX paths).                          *)
(***************************************************************************)
\* os.path.splitext(p)[1]: the suffix from the last dot of the last path
\* component on, leading dots of the component not counting
splitext_ext(p) ==
    LET sepIndex == RFind(p, "/")
        dotIndex == RFind(p, ".")
    IN  IF /\ dotIndex > sepIndex
           /\ \E k \in (sepIndex + 1)..(dotIndex - 1) : p[k + 1] # "."
        THEN Slice(p, dotIndex, Len(p))
        ELSE <<>>

\* os.path.split(p)[0]: the directory part, trailing slashes stripped
split_head(p) ==
    LET i == RFind(p, "/") + 1
        head == Slice(p, 0, i)
        keep == {k \in 1..Len(head) : head[k] # "/"}
    IN  IF keep = {} THEN head
        ELSE Slice(head, 0, CHOOSE k \in keep : \A j \in keep : j <= k)

\* sublime_lib.path.path_to_dict(p).ext
path_to_dict_ext(p) == splitext_ext(p)

(***************************************************************************)
(* The classes of the module.  Own(c) is the class body of c: the          *)
(* attributes and methods it defines itself; Attr looks an attribute up    *)
(* along the bases, as Python does.                                        *)
(***************************************************************************)
json_ext == <<"j", "s", "o", "n">>
plist_ext == <<"p", "l", "i", "s", "t">>
yaml_ext == <<"y", "a", "m", "l">>
json5_ext == <<"j", "s", "o", "n", "5">>
yml_ext == <<"y", "m", "l">>

NoScope == "None"
DOCTYPE == "<!DOCTYPE plist"

Variants == {"JSONLoader", "PlistLoader", "YAMLLoader"}

\* variants a plug-in author may add to the module, each derived from one of
\* the three: JSON5Loader sorts before its base in dir(), YMLLoader and
\* XPlistLoader after theirs; XPlistLoader keeps the extension of its base
Extras == {"JSON5Loader", "YMLLoader", "XPlistLoader"}

LoaderClasses == {"LoaderProto"} \cup Variants \cup Extras

Base(c) ==
    CASE c = "LoaderProto" -> "object"
      [] c \in Variants -> "LoaderProto"
      [] c = "JSON5Loader" -> "JSONLoader"
      [] c = "YMLLoader" -> "YAMLLoader"
      [] c = "XPlistLoader" -> "PlistLoader"
      [] c = "ExpatError" -> "Exception"
      [] OTHER -> "object"

Own(c) ==
    CASE c = "LoaderProto" ->
           [name |-> "", ext |-> <<>>, scope |-> NoScope,
            file_regex |-> "", output_panel_name |-> "aaa_package_dev",
            file_is_valid |-> "LoaderProto", parse |-> "LoaderProto"]
      [] c = "JSONLoader" ->
           [name |-> "JSON", ext |-> json_ext, scope |-> "source.json",
            debug_base |-> <<"Error parsing JSON \"", "%s", "\": ", "%s">>,
            file_regex |-> "JSON", parse |-> "JSONLoader"]
      [] c = "PlistLoader" ->
           [name |-> "Property List", ext |-> plist_ext,
            debug_base |-> <<"Error parsing Property List \"", "%s", "\": ",
                             "%s", ", line ", "%s", ", column ", "%s">>,
            file_regex |-> "Property List",
            file_is_valid |-> "PlistLoader", parse |-> "PlistLoader"]
      [] c = "YAMLLoader" ->
           [name |-> "YAML", ext |-> yaml_ext, scope |-> "source.yaml",
            debug_base |-> <<"Error parsing YAML: ", "%s">>,
            file_regex |-> "YAML", parse |-> "YAMLLoader"]
      [] c = "JSON5Loader" -> [name |-> "JSON5", ext |-> json5_ext]
      [] c = "YMLLoader" -> [name |-> "YML", ext |-> yml_ext]
      [] c = "XPlistLoader" -> [name |-> "XML Property List", ext |-> plist_ext]
      [] OTHER -> [name |-> ""]

RECURSIVE Mro(_)
Mro(c) == IF c \in {"object", "Exception"} THEN <<>> ELSE <<c>> \o Mro(Base(c))

issubclass(c, d) == \E k \in 1..Len(Mro(c)) : Mro(c)[k] = d

\* the attribute a of class c, found on the first class of the bases that
\* defines it
Attr(c, a) ==
    LET m == Mro(c)
        k == CHOOSE j \in 1..Len(m) :
                 /\ a \in DOMAIN Own(m[j])
                 /\ \A h \in 1..(j - 1) : a \notin DOMAIN Own(m[h])
    IN  Own(m[k])[a]

DotExt(c) == <<".">> \o Attr(c, "ext")

(***************************************************************************)
(* dir() of the module when the collecting loop starts, in its sorted      *)
(* order, and what each name is bound to.                                  *)
(***************************************************************************)
DirOrder ==
    <<"ErrorString", "ExpatError", "JSON5Loader", "JSONLoader", "LoaderProto",
      "OutputPanel", "PlistLoader", "XPlistLoader", "YAMLLoader", "YMLLoader",
      "__builtins__", "__doc__", "__file__", "__name__", "__package__",
      "_join_multiline", "appendix_regex", "base_scope", "coorded_substr",
      "get", "json", "os", "path_to_dict", "plistlib", "re", "sublime", "yaml">>

IsClass(n) == n \in LoaderClasses \cup {"ExpatError", "OutputPanel"}

InModule(n) == n \notin Extras \/ n \in defined

Dir == SelectSeq(DirOrder, InModule)

(***************************************************************************)
(* The appendix pattern and get_ext_appendix.                              *)
(***************************************************************************)
\* LoaderProto._pre_init_: the default pattern, built from cls.ext, unless
\* hasattr(cls, 'ext_regex'), which an attribute of a base class satisfies
hasattr_ext_regex(cls, attrs) ==
    \E k \in 1..Len(Mro(cls)) : Mro(cls)[k] \in DOMAIN attrs

pre_init(cls, attrs) ==
    IF ~hasattr_ext_regex(cls, attrs)
    THEN [c \in DOMAIN attrs \cup {cls} |->
             IF c = cls THEN [ext |-> Attr(cls, "ext")] ELSE attrs[c]]
    ELSE attrs

\* cls.ext_regex, found along the bases
cls_ext_regex(cls) ==
    LET m == Mro(cls)
        k == CHOOSE j \in 1..Len(m) :
                 /\ m[j] \in DOMAIN ext_regex
                 /\ \A h \in 1..(j - 1) : m[h] \notin DOMAIN ext_regex
    IN  ext_regex[m[k]]

\* r'(?i)\.%s(?:-([^\.]+))?$' % e matches s from position p on
MatchAt(e, s, p) ==
    /\ s[p] = "."
    /\ p + Len(e) <= Len(s)
    /\ LowerStr(SubSeq(s, p + 1, p + Len(e))) = LowerStr(e)
    /\ LET r == SubSeq(s, p + Len(e) + 1, Len(s))
       IN  \/ r = <<>>
           \/ /\ Len(r) >= 2
              /\ r[1] = "-"
              /\ \A k \in 2..Len(r) : r[k] # "."

\* re.search(pattern, s): the leftmost match and its group 1
re_search(rx, s) ==
    LET e == rx.ext
        hits == {p \in 1..Len(s) : MatchAt(e, s, p)}
    IN  IF hits = {} THEN [matched |-> FALSE, group1 |-> None]
        ELSE LET p == CHOOSE q \in hits : \A j \in hits : q <= j
                 r == SubSeq(s, p + Len(e) + 1, Len(s))
             IN  [matched |-> TRUE,
                  group1 |-> IF r = <<>> THEN None ELSE Tail(r)]

get_ext_appendix(cls, file_name) ==
    IF Truthy(file_name)
    THEN LET ret == re_search(cls_ext_regex(cls), file_name)
         IN  IF ret.matched /\ Truthy(ret.group1) THEN ret.group1 ELSE None
    ELSE None

(***************************************************************************)
(* Views (buffer handles) and files.  A line of text is a sequence of      *)
(* chunks of len(DOCTYPE) characters, so that a line starts with DOCTYPE   *)
(* exactly when its first chunk is DOCTYPE.                                *)
(***************************************************************************)
NoView == [present |-> FALSE]
NoFile == [exists |-> FALSE]

LineDoctype == <<DOCTYPE, " PUBLIC \"-//App">>
LineXml == <<"<?xml version=\"", "1.0\" encoding=\"">>

startswith(line, marker) == Len(line) > 0 /\ line[1] = marker

\* view.file_name(), and `view and view.file_name()`
view_file_name(view) == IF view.present THEN view.file_name ELSE None

\* sublime_lib.view.base_scope(view)
base_scope(view) == view.scope

\* sublime_lib.view.coorded_substr(view, (row, 0), (row, len(DOCTYPE)))
coorded_substr(view, row) ==
    IF row + 1 <= Len(view.rows) /\ Len(view.rows[row + 1]) > 0
    THEN view.rows[row + 1][1]
    ELSE ""

(***************************************************************************)
(* file_is_valid.  The result records what was returned or raised and      *)
(* which content was read to decide: "no", "buffer" or "file".             *)
(***************************************************************************)
Returned(v, sniffed) == [ret |-> v, raised |-> "", sniffed |-> sniffed]
Raised(e, sniffed) == [ret |-> "None", raised |-> e, sniffed |-> sniffed]

LoaderProto_file_is_valid(cls, view, file_path_arg) ==
    LET file_path == PyOr(file_path_arg, view_file_name(view))
    IN  IF ~Truthy(file_path) THEN Returned("None", "no")
        ELSE IF get_ext_appendix(cls, file_path) # None
        THEN Returned("True", "no")
        ELSE IF path_to_dict_ext(file_path) = DotExt(cls)
        THEN Returned("True", "no")
        \* cls.scope is not None and view and base_scope(view) == cls.scope
        ELSE IF Attr(cls, "scope") = NoScope THEN Returned("False", "no")
        ELSE IF ~view.present THEN Returned("None", "no")
        ELSE Returned(IF base_scope(view) = Attr(cls, "scope")
                      THEN "True" ELSE "False", "buffer")

\* for i in range(2): the rows of the buffer that are compared with DOCTYPE
SniffRows == 2
\* if i == 2: break
BreakAt == 2

\* the loop over the lines of the open file, from line k on, i lines counted
RECURSIVE scan_file(_, _, _)
scan_file(lines, k, i) ==
    IF k > Len(lines) THEN FALSE
    ELSE IF i + 1 = BreakAt THEN FALSE
    ELSE IF startswith(lines[k], DOCTYPE) THEN TRUE
    ELSE scan_file(lines, k + 1, i + 1)

\* PlistLoader.file_is_valid with the content read before the name is tested
PlistLoader_file_is_valid_sniff_first(cls, view, file_path_arg, file) ==
    LET file_path == PyOr(file_path_arg, view_file_name(view))
        named == \/ get_ext_appendix(cls, file_path) # None
                 \/ splitext_ext(file_path) = DotExt(cls)
    IN  IF ~Truthy(file_path) THEN Returned("None", "no")
        ELSE IF view.present
        THEN Returned(IF \/ named
                         \/ \E i \in 0..(SniffRows - 1) :
                                coorded_substr(view, i) = DOCTYPE
                      THEN "True" ELSE "False", "buffer")
        ELSE IF ~file.exists
        THEN IF named THEN Returned("True", "no") ELSE Raised("IOError", "file")
        ELSE Returned(IF named \/ scan_file(file.lines, 1, 0)
                      THEN "True" ELSE "False", "file")

PlistLoader_file_is_valid(cls, view, file_path_arg, file) ==
    LET file_path == PyOr(file_path_arg, view_file_name(view))
    IN  IF ~Truthy(file_path) THEN Returned("None", "no")
        ELSE IF \/ get_ext_appendix(cls, file_path) # None
                \/ splitext_ext(file_path) = DotExt(cls)
        THEN Returned("True", "no")
        ELSE IF view.present
        THEN Returned(IF \E i \in 0..(SniffRows - 1) :
                             coorded_substr(view, i) = DOCTYPE
                      THEN "True" ELSE "False", "buffer")
        \* with open(file_path) as f
        ELSE IF ~file.exists THEN Raised("IOError", "file")
        ELSE Returned(IF scan_file(file.lines, 1, 0) THEN "True" ELSE "False",
                      "file")

\* cls.file_is_valid(view, file_path), the file at the path being `file`
file_is_valid(cls, view, file_path, file) ==
    IF Attr(cls, "file_is_valid") = "PlistLoader"
    THEN PlistLoader_file_is_valid(cls, view, file_path, file)
    ELSE LoaderProto_file_is_valid(cls, view, file_path)

(***************************************************************************)
(* get_new_file_ext: (extension, prepend_ext), or what it raised.          *)
(***************************************************************************)
get_new_file_ext(cls, view, file_path_arg, file) ==
    LET file_path == PyOr(file_path_arg, view_file_name(view))
        appendix == get_ext_appendix(cls, file_path)
        ext == splitext_ext(file_path)
        valid == file_is_valid(cls, view, file_path, file)
    IN  IF ~Truthy(file_path)
        THEN [ext |-> None, prepend |-> FALSE, raised |-> ""]
        ELSE IF Truthy(appendix)
        THEN [ext |-> <<".">> \o appendix, prepend |-> FALSE, raised |-> ""]
        ELSE IF ext # DotExt(cls) /\ valid.raised # ""
        THEN [ext |-> None, prepend |-> FALSE, raised |-> valid.raised]
        ELSE IF ext # DotExt(cls) /\ valid.ret = "True"
        THEN [ext |-> ext, prepend |-> TRUE, raised |-> ""]
        ELSE [ext |-> None, prepend |-> FALSE, raised |-> ""]

(***************************************************************************)
(* String formatting and the messages of the decoders.                     *)
(***************************************************************************)
Placeholders(fmt) == Cardinality({k \in 1..Len(fmt) : fmt[k] = "%s"})

RECURSIVE Subst(_, _)
Subst(fmt, args) ==
    IF fmt = <<>> THEN <<>>
    ELSE IF Head(fmt) = "%s" THEN Head(args) \o Subst(Tail(fmt), Tail(args))
    ELSE <<Head(fmt)>> \o Subst(Tail(fmt), args)

\* fmt % args: a TypeError unless there is one argument for each conversion
Format(fmt, args) ==
    IF Placeholders(fmt) # Len(args)
    THEN [raised |-> "TypeError", text |-> <<>>]
    ELSE [raised |-> "", text |-> Subst(fmt, args)]

\* line.strip(), on a line of chunks of which " " is white space
RECURSIVE lstrip(_)
lstrip(l) == IF l # <<>> /\ Head(l) = " " THEN lstrip(Tail(l)) ELSE l

RECURSIVE rstrip(_)
rstrip(l) ==
    IF l # <<>> /\ l[Len(l)] = " " THEN rstrip(SubSeq(l, 1, Len(l) - 1)) ELSE l

\* string.split("\n"), the string given with "\n" chunks
RECURSIVE split_lines(_, _)
split_lines(str, cur) ==
    IF str = <<>> THEN <<cur>>
    ELSE IF Head(str) = "\n" THEN <<cur>> \o split_lines(Tail(str), <<>>)
    ELSE split_lines(Tail(str), Append(cur, Head(str)))

RECURSIVE join_space(_)
join_space(ls) ==
    IF ls = <<>> THEN <<>>
    ELSE IF Len(ls) = 1 THEN ls[1]
    ELSE ls[1] \o <<" ">> \o join_space(Tail(ls))

join_multiline(str) ==
    LET ls == split_lines(str, <<>>)
    IN  join_space([k \in 1..Len(ls) |-> rstrip(lstrip(ls[k]))])

\* str(e) of the errors the decoders and open() raise
ValueErrorStr == <<"Expecting property name: line 1 column 8 (char 7)">>
IOErrorStr(path) == <<"[Errno 2] No such file or directory: '">> \o path \o <<"'">>
YAMLErrorStr(path) ==
    <<"while scanning for the next token", "\n",
      "found character '\\t' that cannot start any token", "\n",
      " ", " ", "in \"">> \o path \o <<"\", line 2, column 1">>
StructuralStr == <<"'NoneType' object has no attribute 'append'">>

(***************************************************************************)
(* parse, one per format.  The result: what was returned ("data" or        *)
(* "None") or raised, and the lines written to self.output.                *)
(***************************************************************************)
Bodies == {"value", "syntax", "structural"}

ParseResult(ret, raised, written) ==
    [ret |-> ret, raised |-> raised, written |-> written]

\* self.output.write_line(fmt % args), then falling off the except clause
WriteFormatted(fmt, args) ==
    LET line == Format(fmt, args)
    IN  IF line.raised # "" THEN ParseResult("None", line.raised, <<>>)
        ELSE ParseResult("None", "", <<line.text>>)

ErrorOpening == <<"Error opening \"", "%s", "\": ", "%s">>

LoaderProto_parse(this, file) == ParseResult("None", "", <<>>)

JSONLoader_parse(this, file) ==
    IF ~file.exists        \* open() raises IOError
    THEN WriteFormatted(ErrorOpening, <<this.file_path, IOErrorStr(this.file_path)>>)
    ELSE IF file.body = "syntax"        \* json.load raises ValueError
    THEN WriteFormatted(Attr(this.cls, "debug_base"),
                        <<this.file_path, ValueErrorStr>>)
    ELSE ParseResult("data", "", <<>>)

PlistLoader_parse(this, file) ==
    IF ~file.exists        \* readPlist raises IOError: except BaseException
    THEN WriteFormatted(Attr(this.cls, "debug_base"),
                        <<this.file_path, IOErrorStr(this.file_path)>>)
    ELSE IF file.body = "syntax"        \* except ExpatError
    THEN WriteFormatted(Attr(this.cls, "debug_base"),
                        <<this.file_path, <<"mismatched tag">>, <<"3">>, <<"2">>>>)
    ELSE IF file.body = "structural"    \* except BaseException
    THEN WriteFormatted(Attr(this.cls, "debug_base"),
                        <<this.file_path, StructuralStr>>)
    ELSE ParseResult("data", "", <<>>)

YAMLLoader_parse(this, file) ==
    IF ~file.exists        \* open() raises IOError
    THEN WriteFormatted(ErrorOpening, <<this.file_path, IOErrorStr(this.file_path)>>)
    ELSE IF file.body = "syntax"        \* yaml.safe_load raises YAMLError
    THEN WriteFormatted(Attr(this.cls, "debug_base"),
                        <<join_multiline(YAMLErrorStr(this.file_path))>>)
    ELSE ParseResult("data", "", <<>>)

\* self.parse()
parse(this, file) ==
    CASE Attr(this.cls, "parse") = "JSONLoader" -> JSONLoader_parse(this, file)
      [] Attr(this.cls, "parse") = "PlistLoader" -> PlistLoader_parse(this, file)
      [] Attr(this.cls, "parse") = "YAMLLoader" -> YAMLLoader_parse(this, file)
      [] OTHER -> LoaderProto_parse(this, file)

(***************************************************************************)
(* load.  The result of parse, with the events of the call in their order: *)
(* "is_valid", "write_line" (one per line written) and "parse".            *)
(***************************************************************************)
is_valid(this, file) == file_is_valid(this.cls, this.view, this.file_path, file)

ParsingLine == <<"Parsing ", "%s", "... (", "%s", ")">>
NotAFile == <<"Not a ", "%s", " file.">>

TraceLine(this) ==
    Format(ParsingLine, <<<<Attr(this.cls, "name")>>, this.file_path>>).text

LoadResult(ret, raised, message, written, events) ==
    [ret |-> ret, raised |-> raised, message |-> message, written |-> written,
     events |-> events]

ParseEvents(r) == <<"parse">> \o [k \in 1..Len(r.written) |-> "write_line"]

\* load with the trace line written before validity is tested
load_trace_first(this, file) ==
    LET valid == is_valid(this, file)
        r == parse(this, file)
    IN  IF valid.raised # ""
        THEN LoadResult("None", valid.raised, <<>>, <<TraceLine(this)>>,
                        <<"write_line", "is_valid">>)
        ELSE IF valid.ret # "True"
        THEN LoadResult("None", "NotImplementedError",
                        Format(NotAFile, <<<<Attr(this.cls, "name")>>>>).text,
                        <<TraceLine(this)>>, <<"write_line", "is_valid">>)
        ELSE LoadResult(r.ret, r.raised, <<>>, <<TraceLine(this)>> \o r.written,
                        <<"write_line", "is_valid">> \o ParseEvents(r))

load(this, file) ==
    LET valid == is_valid(this, file)
        r == parse(this, file)
    IN  IF valid.raised # ""
        THEN LoadResult("None", valid.raised, <<>>, <<>>, <<"is_valid">>)
        ELSE IF valid.ret # "True"
        THEN LoadResult("None", "NotImplementedError",
                        Format(NotAFile, <<<<Attr(this.cls, "name")>>>>).text,
                        <<>>, <<"is_valid">>)
        ELSE LoadResult(r.ret, r.raised, <<>>, <<TraceLine(this)>> \o r.written,
                        <<"is_valid", "write_line">> \o ParseEvents(r))

(***************************************************************************)
(* Construction.  The output panel is [lines, path, file_regex]; the       *)
(* window has one panel per name, so every OutputPanel of the name         *)
(* "aaa_package_dev" is a handle on the same panel.                        *)
(***************************************************************************)
NoLoader == [exists |-> FALSE]

\* OutputPanel.set_path(path, file_regex)
set_path(pnl, path, file_regex) ==
    [pnl EXCEPT !.path = path, !.file_regex = file_regex]

\* OutputPanel(window, name, file_regex=..., path=...)
OutputPanel(pnl, file_regex, path) == set_path(pnl, path, file_regex)

\* OutputPanel.clear()
clear(pnl) == [pnl EXCEPT !.lines = <<>>]

\* OutputPanel.write_line, once for each line of written
write_lines(pnl, written) == [pnl EXCEPT !.lines = @ \o written]

\* the branch with a supplied panel cleared too
init_output_clear_always(cls, output, path, pnl) ==
    clear(OutputPanel(pnl, Attr(cls, "file_regex"), path))

\* the branch on isinstance(output, OutputPanel) of __init__: the panel after it
init_output(cls, output, path, pnl) ==
    IF output = "OutputPanel"
    THEN set_path(pnl, path, Attr(cls, "file_regex"))
    ELSE clear(OutputPanel(pnl, Attr(cls, "file_regex"), path))

\* LoaderProto.__init__(window, view, file_path, output): what it raised, the
\* instance and the panel it leaves.  window is whether a window was given.
init(cls, window, view, file_path_arg, output, pnl) ==
    LET file_path == PyOr(file_path_arg, view_file_name(view))
        failed == [raised |-> "AttributeError", this |-> NoLoader, panel |-> pnl]
    IN  IF ~window /\ ~view.present THEN failed       \* view.window() of None
        ELSE IF ~Truthy(file_path_arg) /\ ~view.present
        THEN failed                                   \* view.file_name() of None
        ELSE IF file_path = None THEN failed          \* os.path.split(None)
        ELSE [raised |-> "",
              this |-> [exists |-> TRUE, cls |-> cls, view |-> view,
                        file_path |-> file_path, output |-> "OutputPanel"],
              panel |-> init_output(cls, output, split_head(file_path), pnl)]

(***************************************************************************)
(* The inputs of the calls.                                                *)
(***************************************************************************)
\* the concrete variants of the module
Concrete == Variants \cup defined

ExtForms ==
    {json_ext, <<"J", "S", "O", "N">>, plist_ext, yaml_ext, yml_ext, json5_ext,
     <<"t", "x", "t">>}

Tails ==
    {<<>>, <<"-">>, <<"-", "x">>, <<"-", "x", "-", "y">>, <<"-", "x", ".", "y">>}

Names ==
    {None, <<>>, <<"a">>, <<".">> \o json_ext, <<".">> \o json_ext \o <<"-", "x">>,
     <<"d", ".">> \o json_ext \o <<"-", "x", "/", "a">>,
     <<"d", "/", "a", ".">> \o yaml_ext \o <<"-", "x">>}
    \cup {<<"a", ".">> \o e \o t : e \in ExtForms, t \in Tails}

RECURSIVE SeqsUpTo(_, _)
SeqsUpTo(S, n) ==
    IF n = 0 THEN {<<>>}
    ELSE LET shorter == SeqsUpTo(S, n - 1)
         IN  shorter \cup {Append(q, x) : q \in shorter, x \in S}

Files ==
    {NoFile} \cup
    {[exists |-> TRUE, lines |-> l, body |-> "value"] :
        l \in SeqsUpTo({LineDoctype, LineXml}, MaxFileLines)}

ViewContents ==
    {<<"source.json", <<>>>>, <<"source.yaml", <<>>>>,
     <<"text.xml", <<LineDoctype>>>>, <<"text.xml", <<LineXml>>>>,
     <<"text.xml", <<LineXml, LineDoctype>>>>,
     <<"text.xml", <<LineXml, LineXml, LineDoctype>>>>}

Views ==
    {NoView} \cup
    {[present |-> TRUE, file_name |-> n, scope |-> c[1], rows |-> c[2]] :
        n \in {None, <<"a", ".", "t", "x", "t">>}, c \in ViewContents}

LoadPath == <<"d", "/", "a", ".">> \o json_ext

LoadPaths == {None, LoadPath}

\* an unsaved buffer, and a saved one whose scope and first rows make it
\* a YAML file and a property list for the content tests
LoadViews ==
    {NoView,
     [present |-> TRUE, file_name |-> None, scope |-> "source.json",
      rows |-> <<>>],
     [present |-> TRUE, file_name |-> LoadPath, scope |-> "source.yaml",
      rows |-> <<LineXml, LineDoctype>>]}

\* (window, view): a window is given; or none is, nor a view to ask for it
WindowViews ==
    {<<TRUE, v>> : v \in LoadViews} \cup {<<FALSE, v>> : v \in {NoView}}

LoadFiles ==
    {NoFile, [exists |-> TRUE, lines |-> <<LineXml, LineDoctype>>, body |-> "value"]}
    \cup {[exists |-> TRUE, lines |-> <<LineDoctype>>, body |-> b] : b \in Bodies}

\* output: None, or the OutputPanel an earlier loader or the caller made
Outputs == {"None", "OutputPanel"}

(***************************************************************************)
(* The state machine.                                                      *)
(***************************************************************************)
\* the module as imported with the plug-in variants of `modules`
InitOf(modules) ==
    /\ defined \in modules
    /\ pc = "import"
    /\ idx = 1
    /\ get = [k \in {} |-> ""]
    /\ ext_regex = [c \in {} |-> [ext |-> <<>>]]
    /\ self = NoLoader
    /\ panel = [lines |-> <<>>, path |-> None, file_regex |-> ""]
    /\ last = [op |-> "import"]

\* The loader operations are explored with the module as it is and with the
\* plug-in variant that shares the extension of its base; the class methods
\* with every choice of plug-in variants.
Init == InitOf({{}, {"XPlistLoader"}})

InitMethods == InitOf(SUBSET Extras)

\* the test without `not t is LoaderProto`: the prototype is collected too
IsVariant_with_proto(t) ==
    IsClass(t) /\ Mro(t) # <<>> /\ issubclass(t, "LoaderProto")

\* t.__bases__ exists and is not empty, and t is a proper subclass of
\* LoaderProto; a t without __bases__ raises AttributeError, which is passed
IsVariant(t) ==
    /\ IsClass(t)
    /\ Mro(t) # <<>>
    /\ issubclass(t, "LoaderProto") /\ t # "LoaderProto"

\* get[t.ext] = t
Register(reg, t) ==
    [k \in DOMAIN reg \cup {Attr(t, "ext")} |->
        IF k = Attr(t, "ext") THEN t ELSE reg[k]]

\* one turn of `for type_name in dir()`
Collect ==
    /\ pc = "import"
    /\ idx <= Len(Dir)
    /\ LET t == Dir[idx]
       IN  IF IsVariant(t)
           THEN /\ ext_regex' = pre_init(t, ext_regex)
                /\ get' = Register(get, t)
           ELSE UNCHANGED <<get, ext_regex>>
    /\ idx' = idx + 1
    /\ pc' = IF idx + 1 > Len(Dir) THEN "ready" ELSE "import"
    /\ UNCHANGED <<defined, self, panel, last>>

Construct ==
    /\ pc = "ready"
    /\ \E cls \in Concrete, wv \in WindowViews,
          file_path \in LoadPaths, output \in Outputs :
          LET r == init(cls, wv[1], wv[2], file_path, output, panel)
          IN  /\ self' = IF r.raised = "" THEN r.this ELSE self
              /\ panel' = r.panel
              /\ last' = [op |-> "__init__", output |-> output,
                          raised |-> r.raised]
    /\ UNCHANGED <<defined, pc, idx, get, ext_regex>>

Load ==
    /\ pc = "ready"
    /\ self.exists
    /\ \E file \in LoadFiles :
          LET r == load(self, file)
          IN  /\ Len(panel.lines) + Len(r.written) <= MaxLines
              /\ panel' = write_lines(panel, r.written)
              /\ last' = [op |-> "load", file |-> file, res |-> r]
    /\ UNCHANGED <<defined, pc, idx, get, ext_regex, self>>

Next == Collect \/ Construct \/ Load

Spec == Init /\ [][Next]_vars

(***************************************************************************)
(* The class methods, called on any variant with any view, path and file.  *)
(* They read nothing that a call changes, so one call is made after the    *)
(* import.                                                                 *)
(***************************************************************************)
CallGetExtAppendix ==
    /\ pc = "ready"
    /\ last.op = "import"
    /\ \E cls \in Concrete, file_name \in Names :
          last' = [op |-> "get_ext_appendix", cls |-> cls,
                   file_name |-> file_name,
                   ret |-> get_ext_appendix(cls, file_name)]
    /\ UNCHANGED <<defined, pc, idx, get, ext_regex, self, panel>>

CallFileIsValid ==
    /\ pc = "ready"
    /\ last.op = "import"
    /\ \E cls \in Concrete, view \in Views, file_path \in Names, file \in Files :
          last' = [op |-> "file_is_valid", cls |-> cls, view |-> view,
                   file_path |-> file_path, file |-> file,
                   res |-> file_is_valid(cls, view, file_path, file)]
    /\ UNCHANGED <<defined, pc, idx, get, ext_regex, self, panel>>

CallGetNewFileExt ==
    /\ pc = "ready"
    /\ last.op = "import"
    /\ \E cls \in Concrete, view \in Views, file_path \in Names, file \in Files :
          last' = [op |-> "get_new_file_ext", cls |-> cls, view |-> view,
                   file_path |-> file_path, file |-> file,
                   res |-> get_new_file_ext(cls, view, file_path, file)]
    /\ UNCHANGED <<defined, pc, idx, get, ext_regex, self, panel>>

NextMethods ==
    Collect \/ CallGetExtAppendix \/ CallFileIsValid \/ CallGetNewFileExt

SpecMethods == InitMethods /\ [][NextMethods]_vars

(***************************************************************************)
(* Properties.                                                             *)
(***************************************************************************)
\* the path a class method works on: file_path or view and view.file_name()
LastPath == PyOr(last.file_path, view_file_name(last.view))

IsPlist(cls) == Attr(cls, "file_is_valid") = "PlistLoader"

FailureKind(cls, file) ==
    IF ~file.exists THEN "io"
    ELSE IF file.body = "syntax" THEN "syntax"
    ELSE IF file.body = "structural" /\ Attr(cls, "parse") = "PlistLoader"
    THEN "structural"
    ELSE "none"

\* C1: whenever parse() meets a syntax error, an I/O error or a structural
\* error, in any format, it raises nothing, writes exactly one diagnostic
\* line (after the trace line of load) and returns no value; and load()
\* propagates no error but the validation failure.
C1_ParseFailuresAreReported ==
    last.op = "load" =>
        /\ is_valid(self, last.file).raised = ""
           => last.res.raised \in {"", "NotImplementedError"}
        /\ ("parse" \in {last.res.events[k] : k \in 1..Len(last.res.events)}
            /\ FailureKind(self.cls, last.file) # "none")
           => /\ last.res.raised = ""
              /\ last.res.ret = "None"
              /\ Len(last.res.written) = 2

\* C2: load() tests validity first.  If is_valid() is false or None it raises
\* the not-supported error with the display name, never calls parse and
\* writes nothing; if it is true, exactly one line "Parsing <Name>... (<path>)"
\* is written, before parse is called and before any diagnostic line.
C2_ValidityFirst ==
    last.op = "load" =>
        LET r == last.res
            valid == is_valid(self, last.file)
            name == Attr(self.cls, "name")
            trace == <<"Parsing ", name, "... (">> \o self.file_path \o <<")">>
            n == Len(r.written)
        IN  /\ r.events[1] = "is_valid"
            /\ n <= Len(panel.lines)
            /\ SubSeq(panel.lines, Len(panel.lines) - n + 1, Len(panel.lines))
                   = r.written
            /\ (valid.raised = "" /\ valid.ret \in {"False", "None"})
               => /\ r.raised = "NotImplementedError"
                  /\ r.message = <<"Not a ", name, " file.">>
                  /\ r.events = <<"is_valid">>
                  /\ r.written = <<>>
            /\ (valid.raised = "" /\ valid.ret = "True")
               => /\ n >= 1
                  /\ SubSeq(r.events, 1, 3) = <<"is_valid", "write_line", "parse">>
                  /\ r.written[1] = trace
                  /\ \A k \in 2..n : r.written[k] # trace
                  /\ Cardinality({k \in 1..Len(r.events) : r.events[k] = "parse"}) = 1

C2_Witness ==
    /\ last.op = "load"
    /\ is_valid(self, last.file).ret = "True"
    /\ Len(last.res.written) = 2
    /\ last.res.events = <<"is_valid", "write_line", "parse", "write_line">>

\* C3: with a known path, file_is_valid decides by the appendix, then by the
\* extension, then by the content: an appendix makes the file valid, and so
\* does, without one, the extension "." + ext, in both cases without reading
\* the buffer or the file; the content is read only when both tests fail.
C3_Priority ==
    (last.op = "file_is_valid" /\ Truthy(LastPath)) =>
        LET appendix == get_ext_appendix(last.cls, LastPath)
            same_ext == splitext_ext(LastPath) = <<".">> \o Attr(last.cls, "ext")
            by_name == /\ last.res.ret = "True"
                       /\ last.res.raised = ""
                       /\ last.res.sniffed = "no"
        IN  /\ appendix # None => by_name
            /\ (appendix = None /\ same_ext) => by_name
            /\ last.res.sniffed # "no" => (appendix = None /\ ~same_ext)

C3_Witness ==
    /\ last.op = "file_is_valid"
    /\ last.cls = "PlistLoader"
    /\ ~last.view.present
    /\ ~last.file.exists
    /\ last.file_path = <<"a", ".">> \o plist_ext \o <<"-", "x">>
    /\ last.res = Returned("True", "no")

\* C4: for a property list without a buffer, a path with no appendix and
\* another extension is valid exactly when "<!DOCTYPE plist" starts the first
\* or the second line of the file.
C4_FirstTwoLines ==
    ( /\ last.op = "file_is_valid"
      /\ IsPlist(last.cls)
      /\ ~last.view.present
      /\ Truthy(LastPath)
      /\ last.file.exists
      /\ get_ext_appendix(last.cls, LastPath) = None
      /\ splitext_ext(LastPath) # DotExt(last.cls) )
    => /\ last.res.raised = ""
       /\ last.res.ret =
             IF \E k \in 1..2 : /\ k <= Len(last.file.lines)
                                /\ startswith(last.file.lines[k], DOCTYPE)
             THEN "True" ELSE "False"

\* C5: file_is_valid never raises, nor does get_new_file_ext, which calls
\* it: for a property list without a buffer, with no appendix and another
\* extension, a file that cannot be read gives False.
C5_NeverRaises ==
    /\ last.op \in {"file_is_valid", "get_new_file_ext"} => last.res.raised = ""
    /\ ( /\ last.op = "file_is_valid"
         /\ IsPlist(last.cls)
         /\ ~last.view.present
         /\ Truthy(LastPath)
         /\ ~last.file.exists
         /\ get_ext_appendix(last.cls, LastPath) = None
         /\ splitext_ext(LastPath) # DotExt(last.cls) )
       => last.res.ret = "False"

\* C6: file_is_valid returns None exactly when there is neither a file path
\* nor a buffer; in every other case it returns True or False.
C6_NoneOnlyWithoutPathAndBuffer ==
    (last.op = "file_is_valid" /\ last.res.raised = "") =>
        (last.res.ret = "None" <=> (~Truthy(LastPath) /\ ~last.view.present))

\* C7: get_new_file_ext returns ("." + appendix, False) for a path with an
\* appendix; else (extension, True) when the extension is not "." + ext and
\* file_is_valid is true; else (None, False); and (None, False), without
\* an error, when no path is known.
C7_ThreeResults ==
    last.op = "get_new_file_ext" =>
        LET appendix == get_ext_appendix(last.cls, LastPath)
            ext == splitext_ext(LastPath)
            valid == file_is_valid(last.cls, last.view, LastPath, last.file)
            result == <<last.res.ext, last.res.prepend>>
        IN  /\ last.res.raised = ""
            /\ result =
                 IF ~Truthy(LastPath) THEN <<None, FALSE>>
                 ELSE IF appendix # None THEN <<<<".">> \o appendix, FALSE>>
                 ELSE IF /\ ext # DotExt(last.cls)
                         /\ valid.raised = "" /\ valid.ret = "True"
                 THEN <<ext, TRUE>>
                 ELSE <<None, FALSE>>

\* the position of the "-" that splits s into <base>.<e>-<appendix>, the
\* appendix not empty and without a dot, the case of e not counting; 0 if
\* s has not this form
DashOf(s, e) ==
    LET ds == {a \in 1..Len(s) :
                 /\ s[a] = "-"
                 /\ a < Len(s)
                 /\ \A k \in (a + 1)..Len(s) : s[k] # "."
                 /\ a - Len(e) - 1 >= 1
                 /\ s[a - Len(e) - 1] = "."
                 /\ LowerStr(SubSeq(s, a - Len(e), a - 1)) = LowerStr(e)}
    IN  IF ds = {} THEN 0 ELSE CHOOSE a \in ds : TRUE

\* s ends in "." + e, the case of e not counting
EndsInExt(s, e) ==
    /\ Len(s) > Len(e)
    /\ s[Len(s) - Len(e)] = "."
    /\ LowerStr(SubSeq(s, Len(s) - Len(e) + 1, Len(s))) = LowerStr(e)

\* s has an extension that does not begin with "." + e
OtherExt(s, e) ==
    LET x == splitext_ext(s)
    IN  /\ x # <<>>
        /\ ~ /\ Len(x) > Len(e)
             /\ LowerStr(SubSeq(x, 2, Len(e) + 1)) = LowerStr(e)

\* C8: once the registry is built, every registered variant without a
\* pattern of its own, a variant derived from a registered variant included,
\* has the default pattern of its own extension: get_ext_appendix returns the
\* appendix of <base>.<ext>-<appendix>, whatever the case of the extension,
\* and None for a name ending in .<ext>, a name with another extension and
\* an empty or missing name.
C8_DefaultPatternOfOwnExt ==
    last.op = "get_ext_appendix" =>
        LET s == last.file_name
            e == Attr(last.cls, "ext")
        IN  /\ (Truthy(s) /\ DashOf(s, e) # 0)
               => last.ret = SubSeq(s, DashOf(s, e) + 1, Len(s))
            /\ (~Truthy(s) \/ EndsInExt(s, e) \/ OtherExt(s, e))
               => last.ret = None

\* the variant that dir() lists last among those of extension k
LastRegistered(k) ==
    LET pos(c) == CHOOSE j \in 1..Len(Dir) : Dir[j] = c
        cs == {c \in Concrete : Attr(c, "ext") = k}
    IN  CHOOSE c \in cs : \A d \in cs : pos(d) <= pos(c)

RegistryBuilt ==
    /\ \A k \in DOMAIN get :
          /\ get[k] \in Concrete
          /\ get[k] # "LoaderProto"
          /\ Attr(get[k], "ext") = k
          /\ get[k] = LastRegistered(k)
    /\ \A c \in Concrete : Attr(c, "ext") \in DOMAIN get

\* C9: once the registry is built, every key maps to a concrete variant with
\* that extension, never to LoaderProto; the extension of every concrete
\* variant is a key; of two variants with one extension the one registered
\* last is found; and no loader operation changes the registry.
C9_RegistryFixed ==
    /\ [](pc = "ready" => RegistryBuilt)
    /\ [][pc = "ready" => get' = get]_vars

C9_Witness ==
    /\ pc = "ready"
    /\ last.op = "load"
    /\ Cardinality({c \in Concrete : Attr(c, "ext") = plist_ext}) = 2
    /\ get[plist_ext] = "XPlistLoader"

\* C10 as stated: over any constructions and loads, no line is ever removed
\* from the panel.
C10_LinesNeverRemoved == [][IsPrefix(panel.lines, panel'.lines)]_vars

\* C10, amended: load only appends; a loader constructed with an OutputPanel
\* re-scopes it to the directory of its file and the pattern of its format
\* and keeps its lines; lines are removed only when a loader is constructed
\* without one, which re-scopes the window's panel and empties it.
C10_LinesRemovedOnlyByNewPanel ==
    [][ /\ \/ IsPrefix(panel.lines, panel'.lines)
           \/ /\ last'.op = "__init__"
              /\ last'.output # "OutputPanel"
              /\ panel'.lines = <<>>
        /\ (last'.op = "__init__" /\ last'.raised = "")
           => /\ panel'.path = split_head(self'.file_path)
              /\ panel'.file_regex = Attr(self'.cls, "file_regex")
              /\ last'.output = "OutputPanel" => panel'.lines = panel.lines
              /\ last'.output # "OutputPanel" => panel'.lines = <<>> ]_vars

C10_Witness ==
    /\ last.op = "__init__"
    /\ last.output = "OutputPanel"
    /\ last.raised = ""
    /\ Len(panel.lines) = 2
    /\ panel.file_regex # "JSON"

====
